---- MODULE Spec2Model ----
(***************************************************************************)
(* A model of aider/sendchat.py (send_completion, its generate() stream,  *)
(* simple_send_with_retries) and of aider/llama_server_model.py           *)
(* (LlamaServerModel.completion and its two transports).                  *)
(*                                                                         *)
(* Strings are tuples of one-character strings, so that startswith,       *)
(* upper(), slicing and concatenation are computed and not assumed.       *)
(* An optional value is a tuple: None is <<>>, a present value x is <<x>>. *)
(*                                                                         *)
(* Four scenarios share the variables:                                     *)
(*   Spec        a session of send_completion calls over the cache         *)
(*   SpecRetry   one call of simple_send_with_retries (FairSpecRetry adds  *)
(*               that an attempt and a sleep each come to an end)          *)
(*   SpecLlama   one local-server completion, through the adapter class or *)
(*               through send_completion, and the consumption of its stream*)
(*   SpecPrompt  the two prompt renderers on one message list              *)
(***************************************************************************)
EXTENDS Integers, Sequences, FiniteSets, TLC

VARIABLES
    CACHE,        \* sendchat.CACHE: None, or the key -> response store
    requests,     \* sendchat.requests: TRUE when the import succeeded
    model_name,   \* the session's model name
    messages,     \* the message list of the session or of the call
    functions,    \* the session's functions argument
    temperature,  \* the session's temperature argument
    extra_params, \* the session's extra_params argument
    call,         \* the last completed completion call, None before the first
    prevCall,     \* the call before it
    nCalls,       \* completed send_completion calls
    pc,           \* position of simple_send_with_retries / of the stream consumer
    retry_delay,  \* simple_send_with_retries: retry_delay, in eighths of a second
    attempts,     \* simple_send_with_retries: send_completion calls made
    sleeps,       \* simple_send_with_retries: the time.sleep calls made, in order
    result,       \* what simple_send_with_retries gave its caller
    wire,         \* SpecLlama: the body lines the server sends on the connection
    breakAt,      \* SpecLlama: the line before which the transport breaks (0: never)
    gen,          \* SpecLlama: the returned generator's state
    yielded,      \* SpecLlama: the chunks the consumer received, in order
    promptA,      \* SpecPrompt: the prompt LlamaServerModel.completion builds
    promptF       \* SpecPrompt: the prompt send_completion builds

vars == <<CACHE, requests, model_name, messages, functions, temperature,
          extra_params, call, prevCall, nCalls, pc, retry_delay, attempts,
          sleeps, result, wire, breakAt, gen, yielded, promptA, promptF>>

sessionVars == <<model_name, functions, temperature, extra_params>>
retryVars == <<pc, retry_delay, attempts, sleeps, result>>
streamVars == <<wire, breakAt, gen, yielded>>
promptVars == <<promptA, promptF>>

None == <<>>
Some(x) == <<x>>
Val(o) == o[1]

SeqsUpTo(S, n) == UNION {[1..k -> S] : k \in 0..n}

\* dict.update: b's entries override a's
Update(a, b) ==
    [k \in (DOMAIN a) \cup (DOMAIN b) |-> IF k \in DOMAIN b THEN b[k] ELSE a[k]]

-----------------------------------------------------------------------------
(* Strings *)

\* str.startswith
StartsWith(s, p) == Len(s) >= Len(p) /\ SubSeq(s, 1, Len(p)) = p

\* str.upper on one character of the model's alphabet
UpperChar(c) ==
    CASE c = "u" -> "U"
      [] c = "s" -> "S"
      [] c = "e" -> "E"
      [] c = "r" -> "R"
      [] c = "y" -> "Y"
      [] c = "h" -> "H"
      [] c = "i" -> "I"
      [] OTHER -> c

\* str.upper
Upper(s) == [i \in 1..Len(s) |-> UpperChar(s[i])]

\* the trailing cue "ASSISTANT: "
ASSISTANT_CUE == <<"A", "S", "S", "I", "S", "T", "A", "N", "T", ":", " ">>

\* f"{role}: {content}\n" of one message, role already upper-cased by the caller
FormatLine(role, content) == role \o <<":", " ">> \o content \o <<"\n">>

-----------------------------------------------------------------------------
(* The two prompt renderers *)

\* mutant of completion_prompt: the content is upper-cased together with the role
completion_prompt_upper_all(msgs) ==
    LET loop[i \in 0..Len(msgs)] ==
            IF i = 0 THEN <<>>
            ELSE loop[i - 1] \o Upper(FormatLine(msgs[i].role, msgs[i].content))
    IN  loop[Len(msgs)] \o ASSISTANT_CUE

\* LlamaServerModel.completion, the loop "for msg in messages: prompt += ..."
completion_prompt(msgs) ==
    LET loop[i \in 0..Len(msgs)] ==
            IF i = 0 THEN <<>>
            ELSE loop[i - 1] \o FormatLine(Upper(msgs[i].role), msgs[i].content)
    IN  loop[Len(msgs)] \o ASSISTANT_CUE

\* send_completion, the same loop on the local-server path
send_completion_prompt(msgs) ==
    LET loop[i \in 0..Len(msgs)] ==
            IF i = 0 THEN <<>>
            ELSE loop[i - 1] \o FormatLine(Upper(msgs[i].role), msgs[i].content)
    IN  loop[Len(msgs)] \o ASSISTANT_CUE

Roles == {<<"u", "s", "e", "r">>, <<"S", "y", "s">>}
Contents == {<<>>, <<"h", "i">>, <<"H", "\n", "u", ":", " ">>}
Message == [role : Roles, content : Contents]

-----------------------------------------------------------------------------
(* Values that cross the interfaces *)

\* JSON values as json.loads returns them
JBool(b) == [t |-> "bool", b |-> b, n |-> 0, s |-> <<>>]
JNum(n) == [t |-> "num", b |-> FALSE, n |-> n, s |-> <<>>]
JStr(s) == [t |-> "str", b |-> FALSE, n |-> 0, s |-> s]
JNull == [t |-> "null", b |-> FALSE, n |-> 0, s |-> <<>>]

\* a parsed JSON document: an object (a dict of fields) or something else
JObject(f) == [object |-> TRUE, fields |-> f]
JArray == [object |-> FALSE, fields |-> <<>>]

\* Python's truth value of a parsed JSON value
Truthy(v) ==
    CASE v.t = "bool" -> v.b
      [] v.t = "num" -> v.n # 0
      [] v.t = "str" -> v.s # <<>>
      [] OTHER -> FALSE

\* dict.get(key, default)
DictGet(d, key, default) == IF key \in DOMAIN d THEN d[key] ELSE default

\* an exception: its class, the retry flag the classification gives it, its str()
Exc(type, retry, msg) == [type |-> type, retry |-> retry, msg |-> msg]

ConnectionError == Exc("ConnectionError", FALSE, <<"Connection refused">>)
HTTPError == Exc("HTTPError", FALSE, <<"500 Server Error">>)
JSONDecodeError == Exc("JSONDecodeError", FALSE, <<"Expecting value">>)
ChunkedEncodingError == Exc("ChunkedEncodingError", FALSE, <<"Connection broken">>)
AttributeError == Exc("AttributeError", FALSE, <<"no attribute">>)
IndexError == Exc("IndexError", FALSE, <<"list index out of range">>)
ImportError == Exc("ImportError", FALSE, <<"Requests library not installed">>)
ValueError == Exc("ValueError", FALSE, <<"Function calling not supported">>)

\* raise RuntimeError(f"Llama.cpp server completion failed: {str(e)}")
RuntimeErrorOf(e) ==
    Exc("RuntimeError", FALSE, <<"Llama.cpp server completion failed: ">> \o e.msg)

\* what litellm.completion raises: an error of a class in exceptions_tuple,
\* which get_ex_info marks retryable or not, an AttributeError from inside
\* the library, and an error of no listed class
LitellmRaises ==
    { Exc("ClassifiedError", TRUE, <<"try again">>),
      Exc("ClassifiedError", FALSE, <<"give up">>),
      AttributeError,
      Exc("TypeError", FALSE, <<"unexpected keyword">>) }

\* litellm_ex.exceptions_tuple(): the classes the except clause catches
exceptions_tuple == {"ClassifiedError"}

\* response objects; a choice may lack .message, a message may lack .content
Choice(has_message, has_content, content, finish_reason) ==
    [has_message |-> has_message, has_content |-> has_content,
     content |-> content, finish_reason |-> finish_reason]
Response(kind, has_choices, choices) ==
    [kind |-> kind, has_choices |-> has_choices, choices |-> choices]

R_none == Response("none", FALSE, <<>>)
R_nochoices == Response("object", FALSE, <<>>)
R_empty == Response("object", TRUE, <<>>)
R_nomessage == Response("object", TRUE, <<Choice(FALSE, FALSE, None, None)>>)
R_nocontent == Response("object", TRUE, <<Choice(TRUE, FALSE, None, None)>>)
R_ok == Response("object", TRUE, <<Choice(TRUE, TRUE, Some(JStr(<<"o", "k">>)), None)>>)
R_stream == Response("stream", FALSE, <<>>)
R_generator == Response("generator", FALSE, <<>>)

LitellmResponses == {R_none, R_nochoices, R_empty, R_nomessage, R_nocontent, R_ok}

\* the bodies the server answers a blocking request with
ServerBodies ==
    { JObject([content |-> JStr(<<"h", "e", "l", "l", "o">>), stop |-> JBool(TRUE)]),
      JObject(<<>>),
      JArray }

-----------------------------------------------------------------------------
(* send_completion *)

LLAMA_PREFIX == <<"l", "l", "a", "m", "a", "-", "c", "p", "p", "/">>

ModelNames ==
    { LLAMA_PREFIX \o <<"m">>,
      SubSeq(LLAMA_PREFIX, 1, 9),
      <<"x">> \o LLAMA_PREFIX }

\* mutant of is_llama_cpp: the tag is looked for anywhere in the name
is_llama_cpp_anywhere(name) ==
    \E i \in 1..Len(name) : StartsWith(SubSeq(name, i, Len(name)), LLAMA_PREFIX)

\* model_name.startswith("llama-cpp/")
is_llama_cpp(name) == StartsWith(name, LLAMA_PREFIX)

\* hashlib.sha1(x), kept symbolic
SHA1(x) == [sha1 |-> x]

Args(mn, msgs, fns, strm, temp, extra) ==
    [model_name |-> mn, messages |-> msgs, functions |-> fns, stream |-> strm,
     temperature |-> temp, extra_params |-> extra]

\* one completed call, as its caller and the backends saw it
Outcome(who, args, outcome, exc, hash, res, nl, nh, cached, fault, payload, before, after) ==
    [who |-> who, args |-> args, outcome |-> outcome, exc |-> exc, hash |-> hash,
     res |-> res, litellm |-> nl, http |-> nh, cached |-> cached, fault |-> fault,
     payload |-> payload, cache_before |-> before, cache_after |-> after]

\* kwargs = dict(model=..., messages=..., stream=...) and the three updates
build_kwargs(a) ==
    LET base == [model |-> a.model_name, messages |-> a.messages, stream |-> a.stream]
        withTemp ==
            IF a.temperature # None
            THEN Update(base, [temperature |-> Val(a.temperature)])
            ELSE base
        function == Val(a.functions)[1]
        withTools ==
            IF a.functions # None
            THEN Update(withTemp,
                     [tools |-> <<[type |-> "function", function |-> function]>>,
                      tool_choice |-> [type |-> "function",
                                       function |-> [name |-> function.name]]])
            ELSE withTemp
    IN  IF a.extra_params # None THEN Update(withTools, Val(a.extra_params)) ELSE withTools

\* mutant of cache_hit: the stream flag is not looked at
cache_hit_any_mode(cache, stream, key) == cache # None /\ key \in DOMAIN Val(cache)

\* "not stream and CACHE is not None and key in CACHE"
cache_hit(cache, stream, key) ==
    ~stream /\ cache # None /\ key \in DOMAIN Val(cache)

\* mutant of cache_store: nothing is stored
cache_store_nothing(cache, stream, key, res) == cache

\* "if not stream and CACHE is not None: CACHE[key] = res"
cache_store(cache, stream, key, res) ==
    IF ~stream /\ cache # None
    THEN Some(Update(Val(cache), [k \in {key} |-> res]))
    ELSE cache

\* the payload of a local-server request
Payload(prompt, stream, temp) == [prompt |-> prompt, stream |-> stream, temperature |-> temp]

\* response_obj of the blocking local-server path
blocking_response_obj(data) ==
    Response("object", TRUE,
        <<Choice(TRUE, TRUE,
                 Some(DictGet(data.fields, "content", JStr(<<>>))),
                 IF Truthy(DictGet(data.fields, "stop", JBool(FALSE)))
                 THEN Some("stop") ELSE None)>>)

\* lines 37-105: the local-server path
llama_cpp_path(cache, req, a) ==
    LET payload == Payload(send_completion_prompt(a.messages), a.stream, a.temperature)
        hash == Some(SHA1(<<"llama_server">>))
        raised(e, nh, fault) ==
            Outcome("facade", a, "raise", Some(e), None, None, 0, nh, FALSE, fault,
                    Some(payload), cache, cache)
        returned(res) ==
            Outcome("facade", a, "return", None, hash, Some(res), 0, 1, FALSE, None,
                    Some(payload), cache, cache)
    IN  IF ~req
        THEN {Outcome("facade", a, "raise", Some(ImportError), None, None, 0, 0, FALSE,
                      None, None, cache, cache)}
        ELSE IF a.stream
        THEN {raised(RuntimeErrorOf(f), 1, Some(f)) : f \in {ConnectionError, HTTPError}}
                 \cup {returned(R_generator)}
        ELSE {raised(RuntimeErrorOf(f), 1, Some(f)) :
                     f \in {ConnectionError, HTTPError, JSONDecodeError}}
                 \cup {IF data.object
                       THEN returned(blocking_response_obj(data))
                       ELSE raised(RuntimeErrorOf(AttributeError), 1, None) :
                           data \in ServerBodies}

\* lines 107-135: the generic path over the cache
litellm_path(cache, a) ==
    LET kwargs == build_kwargs(a)
        key == kwargs
        hash_object == Some(SHA1(key))
        completions == IF kwargs.stream THEN {R_stream} ELSE LitellmResponses
    IN  IF a.functions # None /\ Val(a.functions) = <<>>
        THEN {Outcome("facade", a, "raise", Some(IndexError), None, None, 0, 0, FALSE,
                      None, None, cache, cache)}
        ELSE IF cache_hit(cache, a.stream, key)
        THEN {Outcome("facade", a, "return", None, hash_object, Some(Val(cache)[key]),
                      0, 0, TRUE, None, None, cache, cache)}
        ELSE {Outcome("facade", a, "return", None, hash_object, Some(res), 1, 0, FALSE,
                      None, None, cache, cache_store(cache, a.stream, key, res)) :
                  res \in completions}
             \cup
             {Outcome("facade", a, "raise", Some(e), None, None, 1, 0, FALSE, None,
                      None, cache, cache) : e \in LitellmRaises}

\* send_completion: every way one call can end, given the cache and the import
send_completion(cache, req, a) ==
    IF is_llama_cpp(a.model_name)
    THEN llama_cpp_path(cache, req, a)
    ELSE litellm_path(cache, a)

-----------------------------------------------------------------------------
(* Spec: a session of send_completion calls *)

MaxCalls == 2

F_foo == [name |-> "foo"]
F_bar == [name |-> "bar"]

FunctionsArgs == {None, Some(<<>>), Some(<<F_foo, F_bar>>)}
TemperatureArgs == {None, Some(0)}
ExtraParamsArgs == {None, Some([temperature |-> 1]), Some([stream |-> TRUE])}

M_user == [role |-> <<"u", "s", "e", "r">>, content |-> <<"h", "i">>]
M_sys == [role |-> <<"S", "y", "s">>, content |-> <<>>]
Conversations == {<<M_user>>, <<M_sys, M_user>>}

\* the variables a scenario does not use
IdleRetry ==
    /\ pc = "idle"
    /\ retry_delay = 0
    /\ attempts = 0
    /\ sleeps = <<>>
    /\ result = None
IdleStream ==
    /\ wire = <<>>
    /\ breakAt = 0
    /\ gen = None
    /\ yielded = <<>>
IdlePrompt ==
    /\ promptA = None
    /\ promptF = None

\* a session keeps its model and parameters; the conversation and the stream
\* flag change from call to call. The cache is off (as shipped) or on and empty.
Init ==
    /\ CACHE \in {None, Some(<<>>)}
    /\ requests \in BOOLEAN
    /\ model_name \in ModelNames
    /\ functions \in FunctionsArgs
    /\ temperature \in TemperatureArgs
    /\ extra_params \in ExtraParamsArgs
    /\ messages = <<>>
    /\ call = None
    /\ prevCall = None
    /\ nCalls = 0
    /\ IdleRetry /\ IdleStream /\ IdlePrompt

\* one call send_completion(model_name, messages, functions, stream, ...)
SendCompletion ==
    /\ nCalls < MaxCalls
    /\ \E msgs \in Conversations, stream \in BOOLEAN :
         \E r \in send_completion(CACHE, requests,
                     Args(model_name, msgs, functions, stream, temperature, extra_params)) :
            /\ CACHE' = r.cache_after
            /\ call' = Some(r)
            /\ prevCall' = call
            /\ messages' = msgs
    /\ nCalls' = nCalls + 1
    /\ UNCHANGED <<requests, sessionVars, retryVars, streamVars, promptVars>>

Next == SendCompletion

Spec == Init /\ [][Next]_vars

-----------------------------------------------------------------------------
(* Claims about send_completion, checked under Spec *)

LocalServerName(name) == StartsWith(name, LLAMA_PREFIX)

\* C2: a send_completion call whose model_name starts with "llama-cpp/" never
\* invokes litellm.completion, and a call whose model_name does not start
\* with it never posts to the local server, whatever the other arguments
\* and whether the call returned or raised.
C2_DispatchRouting ==
    call # None =>
        LET c == Val(call)
        IN  /\ LocalServerName(c.args.model_name) => c.litellm = 0
            /\ ~LocalServerName(c.args.model_name) => c.http = 0

\* a local-server call that failed on the wire after a generic call that
\* went to the library
C2_Witness ==
    /\ call # None /\ prevCall # None
    /\ LocalServerName(Val(call).args.model_name)
    /\ Val(call).http = 1
    /\ Val(call).outcome = "raise"
    /\ Val(call).args.functions # None
    /\ Val(call).args.extra_params # None

\* the second of two successive calls with the same arguments, not
\* streaming, the cache enabled, the first having returned
RepeatedBlockingCall ==
    /\ call # None /\ prevCall # None
    /\ Val(prevCall).cache_before # None
    /\ Val(call).args = Val(prevCall).args
    /\ ~Val(call).args.stream
    /\ Val(prevCall).outcome = "return"

\* the repeat is answered from the first call: same hash, same response,
\* no request to any backend
AnsweredFromFirst ==
    /\ Val(call).outcome = "return"
    /\ Val(call).hash = Val(prevCall).hash
    /\ Val(call).res = Val(prevCall).res
    /\ Val(call).litellm = 0
    /\ Val(call).http = 0

\* C3 as stated: with a cache enabled, the second of two successive identical
\* non-streaming calls returns the first call's hash and response without a
\* network request, for every model name, local-server names included.
C3_AsStated == RepeatedBlockingCall => AnsweredFromFirst

\* C3, amended: with a cache enabled, the second of two successive identical
\* non-streaming calls whose model name does not select the local-server
\* path returns the first call's hash and response without a network
\* request; on the local-server path the hash is the same but a new request
\* is posted every time.
C3_CachingIdempotence ==
    RepeatedBlockingCall =>
        IF LocalServerName(Val(call).args.model_name)
        THEN /\ Val(call).http = 1
             /\ ~Val(call).cached
             /\ Val(call).outcome = "return" => Val(call).hash = Val(prevCall).hash
        ELSE AnsweredFromFirst

\* a repeated generic call answered from the cache
C3_Witness ==
    /\ RepeatedBlockingCall
    /\ ~LocalServerName(Val(call).args.model_name)
    /\ Val(call).cached
    /\ Val(call).res = Some(R_ok)

\* the call raised before it reached a backend: the import of requests had
\* failed (local-server path), or functions was an empty list (generic path)
AbortedBeforeBackend(c) ==
    \/ LocalServerName(c.args.model_name) /\ ~requests
    \/ ~LocalServerName(c.args.model_name) /\ c.args.functions = Some(<<>>)

\* C4: a call with stream=True is never answered from the cache and leaves the
\* cache as it found it; it sends its own request to its backend (exactly
\* one) whatever calls came before, unless it raised before reaching the
\* backend at all.
C4_StreamingNeverCached ==
    (call # None /\ Val(call).args.stream) =>
        LET c == Val(call)
        IN  /\ ~c.cached
            /\ c.cache_after = c.cache_before
            /\ CACHE = c.cache_before
            /\ (c.litellm + c.http = 1) <=> ~AbortedBeforeBackend(c)
            /\ c.outcome = "return" => c.litellm + c.http = 1

\* a streaming call right after the same call without streaming had stored
\* its response under the very key the streaming call computes
C4_Witness ==
    /\ call # None /\ prevCall # None
    /\ Val(call).args.stream
    /\ Val(call).cache_before # None
    /\ Val(prevCall).args = [Val(call).args EXCEPT !.stream = FALSE]
    /\ build_kwargs(Val(call).args) \in DOMAIN Val(Val(call).cache_before)
    /\ Val(call).outcome = "return"
    /\ Val(call).litellm = 1

-----------------------------------------------------------------------------
(* SpecRetry: one call of simple_send_with_retries *)

\* retry_delay is counted in eighths of a second: 0.125 s is 1
TICKS_PER_SECOND == 8
INITIAL_RETRY_DELAY == 1
RETRY_TIMEOUT == 60

\* what simple_send_with_retries gives its caller
Returned(value) == [kind |-> "returned", value |-> value, exc |-> None]
Raised(e) == [kind |-> "raised", value |-> None, exc |-> Some(e)]

\* "not response or not hasattr(response, 'choices') or not response.choices"
no_choices(response) ==
    response.kind = "none" \/ ~response.has_choices \/ response.choices = <<>>

\* mutant of response_content: the AttributeError of a choice without
\* message.content reaches the caller
response_content_unguarded(response) ==
    IF no_choices(response) THEN Returned(None)
    ELSE IF ~response.choices[1].has_message \/ ~response.choices[1].has_content
    THEN Raised(AttributeError)
    ELSE Returned(response.choices[1].content)

\* lines 153-155 under "except AttributeError: return None"
response_content(response) ==
    IF no_choices(response) THEN Returned(None)
    ELSE IF ~response.choices[1].has_message \/ ~response.choices[1].has_content
    THEN Returned(None)
    ELSE Returned(response.choices[1].content)

\* mutant of doubled: the delay grows by one step instead of doubling
doubled_linear(delay) == delay + INITIAL_RETRY_DELAY

\* "retry_delay *= 2"
doubled(delay) == delay * 2

\* mutant of over_timeout: the ceiling is tested on the delay before doubling
over_timeout_before_doubling(delay) == delay > 2 * RETRY_TIMEOUT * TICKS_PER_SECOND

\* "retry_delay > RETRY_TIMEOUT"
over_timeout(delay) == delay > RETRY_TIMEOUT * TICKS_PER_SECOND

\* the caches an earlier identical call can have left behind
PriorCaches(req, a) ==
    {None} \cup {r.cache_after : r \in send_completion(Some(<<>>), req, a)}

\* the arguments simple_send_with_retries passes on
RetryArgs == Args(model_name, messages, None, FALSE, Some(0), extra_params)

InitRetry ==
    /\ requests \in BOOLEAN
    /\ model_name \in ModelNames
    /\ messages \in Conversations
    /\ extra_params \in ExtraParamsArgs
    /\ functions = None
    /\ temperature = Some(0)
    /\ CACHE \in PriorCaches(requests, RetryArgs)
    /\ call = None
    /\ prevCall = None
    /\ nCalls = 0
    /\ pc = "attempt"
    /\ retry_delay = INITIAL_RETRY_DELAY
    /\ attempts = 0
    /\ sleeps = <<>>
    /\ result = None
    /\ IdleStream /\ IdlePrompt

\* one pass through the loop body: the send_completion call and what the
\* try statement makes of its outcome
Attempt ==
    /\ pc = "attempt"
    /\ \E r \in send_completion(CACHE, requests, RetryArgs) :
         /\ CACHE' = r.cache_after
         /\ call' = Some(r)
         /\ IF r.outcome = "return"
            THEN /\ result' = Some(response_content(Val(r.res)))
                 /\ pc' = "done"
                 /\ UNCHANGED retry_delay
            ELSE IF Val(r.exc).type \in exceptions_tuple
            THEN LET should_retry == Val(r.exc).retry
                     new_delay == IF should_retry THEN doubled(retry_delay) ELSE retry_delay
                 IN  /\ retry_delay' = new_delay
                     /\ IF should_retry /\ ~over_timeout(new_delay)
                        THEN pc' = "sleep" /\ UNCHANGED result
                        ELSE pc' = "done" /\ result' = Some(Returned(None))
            ELSE IF Val(r.exc).type = "AttributeError"
            THEN /\ result' = Some(Returned(None))
                 /\ pc' = "done"
                 /\ UNCHANGED retry_delay
            ELSE /\ result' = Some(Raised(Val(r.exc)))
                 /\ pc' = "done"
                 /\ UNCHANGED retry_delay
    /\ prevCall' = call
    /\ nCalls' = nCalls + 1
    /\ attempts' = attempts + 1
    /\ UNCHANGED <<requests, sessionVars, messages, sleeps, streamVars, promptVars>>

\* time.sleep(retry_delay); continue
Sleep ==
    /\ pc = "sleep"
    /\ sleeps' = Append(sleeps, [delay |-> retry_delay, cause |-> Val(Val(call).exc)])
    /\ pc' = "attempt"
    /\ UNCHANGED <<CACHE, requests, sessionVars, messages, call, prevCall, nCalls,
                   retry_delay, attempts, result, streamVars, promptVars>>

NextRetry == Attempt \/ Sleep

SpecRetry == InitRetry /\ [][NextRetry]_vars

\* every send_completion call returns or raises, and every time.sleep returns
FairSpecRetry == SpecRetry /\ WF_vars(Attempt) /\ WF_vars(Sleep)

-----------------------------------------------------------------------------
(* Claims about simple_send_with_retries, checked under SpecRetry *)

\* the attempt ended in a classified error marked retryable
RetryableError(c) ==
    /\ c.outcome = "raise"
    /\ Val(c.exc).type = "ClassifiedError"
    /\ Val(c.exc).retry

\* the classified retryable errors met so far: every attempt but possibly the last
RetryableSoFar ==
    IF call = None THEN 0
    ELSE IF RetryableError(Val(call)) THEN attempts
    ELSE attempts - 1

\* the loop is over and nothing was slept after the last attempt
EndedWith(r) ==
    /\ pc = "done"
    /\ result = Some(r)
    /\ Len(sleeps) = attempts - 1

\* C1: the delay starts at 0.125 s and has been doubled once per classified
\* retryable error; the i-th sleep lasts exactly 0.125 * 2^i s; after a
\* retryable error whose doubled delay is at most 60 s the function sleeps
\* that delay and attempts again, and when the doubled delay is over 60 s
\* (it is then 64 s) it returns None with no sleep and no further attempt.
C1_Backoff ==
    /\ attempts = 0 => retry_delay * 8 = 1 * TICKS_PER_SECOND
    /\ retry_delay * 8 = (2 ^ RetryableSoFar) * TICKS_PER_SECOND
    /\ \A i \in 1..Len(sleeps) :
          /\ sleeps[i].delay * 8 = (2 ^ i) * TICKS_PER_SECOND
          /\ sleeps[i].delay <= 60 * TICKS_PER_SECOND
    /\ (call # None /\ RetryableError(Val(call))) =>
          IF retry_delay <= 60 * TICKS_PER_SECOND
          THEN \/ pc = "sleep" /\ Len(sleeps) = attempts - 1
               \/ /\ pc = "attempt"
                  /\ Len(sleeps) = attempts
                  /\ sleeps[attempts].delay = retry_delay
          ELSE /\ retry_delay = 64 * TICKS_PER_SECOND
               /\ EndedWith(Returned(None))

\* the ninth retryable error in a row: 64 s is over the ceiling
C1_Witness ==
    /\ pc = "done"
    /\ call # None /\ RetryableError(Val(call))
    /\ retry_delay = 64 * TICKS_PER_SECOND
    /\ Len(sleeps) = 8
    /\ sleeps[8].delay = 32 * TICKS_PER_SECOND

\* the response lacks the shape choices[0].message.content
Misshapen(res) ==
    \/ res.kind = "none"
    \/ ~res.has_choices
    \/ res.choices = <<>>
    \/ ~res.choices[1].has_message
    \/ ~res.choices[1].has_content

\* C5: after an attempt that ends in a classified error not marked retryable,
\* or that yields a response that is empty, has no choices attribute, has an
\* empty choices list or whose first choice lacks message.content, the
\* function has returned None (it did not raise), with no sleep and no
\* attempt after it; after a well-shaped response it has returned exactly
\* choices[0].message.content.
C5_SoftFailure ==
    call # None =>
        LET c == Val(call)
        IN  /\ ( /\ c.outcome = "raise"
                 /\ Val(c.exc).type = "ClassifiedError"
                 /\ ~Val(c.exc).retry ) => EndedWith(Returned(None))
            /\ (c.outcome = "return" /\ Misshapen(Val(c.res))) =>
                   EndedWith(Returned(None))
            /\ (c.outcome = "return" /\ ~Misshapen(Val(c.res))) =>
                   EndedWith(Returned(Val(c.res).choices[1].content))

\* a first choice without message.content, met on the attempt after a retry
C5_Witness ==
    /\ pc = "done"
    /\ attempts = 2
    /\ call # None
    /\ Val(call).outcome = "return"
    /\ Val(call).res = Some(R_nocontent)
    /\ result = Some(Returned(None))

\* the counts and the cause of every sleep
C10_Bounded ==
    /\ attempts <= 9
    /\ Len(sleeps) <= 8
    /\ attempts <= Len(sleeps) + 1
    /\ \A i \in 1..Len(sleeps) :
          /\ sleeps[i].delay <= 32 * TICKS_PER_SECOND
          /\ sleeps[i].cause.type = "ClassifiedError"
          /\ sleeps[i].cause.retry
    /\ pc = "sleep" => RetryableError(Val(call))

\* C10: every call of simple_send_with_retries comes to an end, given that
\* each send_completion call and each sleep does; it makes at most 9
\* attempts and 8 sleeps, never sleeps longer than 32 s, and sleeps and
\* attempts again only after a classified error marked retryable.
C10_Terminates == <>(pc = "done") /\ []C10_Bounded

\* success on the ninth attempt, after the longest sleep
C10_Witness ==
    /\ pc = "done"
    /\ attempts = 9
    /\ Len(sleeps) = 8
    /\ result = Some(Returned(Some(JStr(<<"o", "k">>))))

-----------------------------------------------------------------------------
(* Body lines of a streamed answer *)

\* a line is a tuple of items: a character, or a whole JSON text standing for
\* the document json.loads makes of it
Ch(c) == [ch |-> c, doc |-> None]
JsonText(d) == [ch |-> "", doc |-> Some(d)]
BAD_BYTE == Ch("0xFF")

DATA_PREFIX == <<Ch("d"), Ch("a"), Ch("t"), Ch("a"), Ch(":"), Ch(" ")>>

D_content == JObject([content |-> JStr(<<"a">>)])
D_stop == JObject([content |-> JStr(<<"b">>), stop |-> JBool(TRUE)])
D_nostop == JObject([content |-> JStr(<<"a">>), stop |-> JBool(FALSE)])
D_truthy == JObject([stop |-> JNum(1)])

Lines ==
    { <<>>,
      DATA_PREFIX \o <<JsonText(D_content)>>,
      DATA_PREFIX \o <<JsonText(D_stop)>>,
      DATA_PREFIX \o <<JsonText(D_nostop)>>,
      DATA_PREFIX \o <<JsonText(D_truthy)>>,
      DATA_PREFIX \o <<JsonText(JArray)>>,
      DATA_PREFIX \o <<Ch("{"), Ch("o")>>,
      <<JsonText(D_content)>>,
      SubSeq(DATA_PREFIX, 1, 5) \o <<JsonText(D_content)>>,
      DATA_PREFIX \o <<BAD_BYTE>> }

\* bytes.decode('utf-8'): does it succeed
decodes(line) == \A i \in 1..Len(line) : line[i] # BAD_BYTE

\* json.loads: [ok |-> TRUE, doc |-> d] or [ok |-> FALSE, ...]
json_loads(text) ==
    IF Len(text) = 1 /\ text[1].doc # None
    THEN [ok |-> TRUE, doc |-> Val(text[1].doc)]
    ELSE [ok |-> FALSE, doc |-> JArray]

\* a chunk handed to the consumer: the facade sets finish_reason, the
\* adapter class passes the stop field on
Chunk(content, finish_reason, stop) ==
    [content |-> content, finish_reason |-> finish_reason, stop |-> stop]

Skip == [yield |-> FALSE, raise |-> None, chunk |-> Chunk(JNull, None, None)]
Yield(c) == [yield |-> TRUE, raise |-> None, chunk |-> c]
Abort(e) == [yield |-> FALSE, raise |-> Some(e), chunk |-> Chunk(JNull, None, None)]

\* the chunk generate() builds from a parsed object
facade_chunk(doc) ==
    Chunk(DictGet(doc.fields, "content", JStr(<<>>)),
          IF Truthy(DictGet(doc.fields, "stop", JBool(FALSE))) THEN Some("stop") ELSE None,
          None)

\* mutant of generate_line: the "data: " prefix is optional
generate_line_prefix_optional(line) ==
    IF line = <<>> THEN Skip
    ELSE IF ~decodes(line) THEN Skip
    ELSE LET text == IF StartsWith(line, DATA_PREFIX)
                     THEN SubSeq(line, 7, Len(line)) ELSE line
             parsed == json_loads(text)
         IN  IF ~parsed.ok THEN Skip
             ELSE IF ~parsed.doc.object THEN Skip
             ELSE Yield(facade_chunk(parsed.doc))

\* send_completion.generate, the body of its for loop on one line
generate_line(line) ==
    IF line = <<>> THEN Skip
    ELSE IF ~decodes(line) THEN Skip
    ELSE IF ~StartsWith(line, DATA_PREFIX) THEN Skip
    ELSE LET parsed == json_loads(SubSeq(line, 7, Len(line)))
         IN  IF ~parsed.ok THEN Skip
             ELSE IF ~parsed.doc.object THEN Skip
             ELSE Yield(facade_chunk(parsed.doc))

\* LlamaServerModel._stream_completion, the body of its for loop on one line
stream_completion_line(line) ==
    IF line = <<>> THEN Skip
    ELSE IF ~decodes(line) THEN Abort(Exc("UnicodeDecodeError", FALSE, <<"invalid start byte">>))
    ELSE LET parsed == json_loads(line)
         IN  IF ~parsed.ok THEN Abort(JSONDecodeError)
             ELSE IF ~parsed.doc.object THEN Abort(AttributeError)
             ELSE Yield(Chunk(DictGet(parsed.doc.fields, "content", JStr(<<>>)),
                              None,
                              Some(DictGet(parsed.doc.fields, "stop", JBool(FALSE)))))

\* a generator object: who made it, whether its body has started, the outcome
\* of the POST it still has to make, the last line read, and how it stands
Generator(owner, started, connect, pos, status, fault) ==
    [owner |-> owner, started |-> started, connect |-> connect, pos |-> pos,
     status |-> status, fault |-> fault]

\* the loop body of the generator's owner
handle_line(owner, line) ==
    IF owner = "facade" THEN generate_line(line) ELSE stream_completion_line(line)

\* one next() on the loop "for line in response.iter_lines()": lines are read
\* from line pos + 1 on until one yields, the body ends or something raises;
\* the transport breaks before line brk is delivered
RECURSIVE iter_lines_next(_, _, _, _)
iter_lines_next(owner, lines, pos, brk) ==
    IF brk = pos + 1
    THEN [kind |-> "raise", pos |-> pos, exc |-> Some(ChunkedEncodingError),
          fault |-> Some(ChunkedEncodingError), chunk |-> Skip.chunk]
    ELSE IF pos + 1 > Len(lines)
    THEN [kind |-> "stop", pos |-> pos, exc |-> None, fault |-> None, chunk |-> Skip.chunk]
    ELSE LET step == handle_line(owner, lines[pos + 1])
         IN  IF step.yield
             THEN [kind |-> "yield", pos |-> pos + 1, exc |-> None, fault |-> None,
                   chunk |-> step.chunk]
             ELSE IF step.raise # None
             THEN [kind |-> "raise", pos |-> pos + 1, exc |-> step.raise,
                   fault |-> None, chunk |-> Skip.chunk]
             ELSE iter_lines_next(owner, lines, pos + 1, brk)

\* next() on the generator send_completion returned
generate_next(g, lines, brk) == iter_lines_next("facade", lines, g.pos, brk)

\* next() on the generator LlamaServerModel.completion returned: the first
\* one runs requests.post and raise_for_status before the loop
stream_completion_next(g, lines, brk) ==
    IF ~g.started /\ g.connect # None
    THEN [kind |-> "raise", pos |-> g.pos, exc |-> g.connect, fault |-> g.connect,
          chunk |-> Skip.chunk]
    ELSE iter_lines_next("adapter", lines, g.pos, brk)

-----------------------------------------------------------------------------
(* LlamaServerModel.completion *)

\* mutant of functions_given: the test is "functions is not None"
functions_not_none(fns) == fns # None

\* "if functions:"
functions_given(fns) == fns # None /\ Val(fns) # <<>>

\* LlamaServerModel._blocking_completion: what it returns or raises
blocking_completion(a, payload) ==
    LET raised(e, fault) ==
            Outcome("adapter", a, "raise", Some(RuntimeErrorOf(e)), None, None, 0, 1,
                    FALSE, fault, Some(payload), None, None)
    IN  {raised(f, Some(f)) : f \in {ConnectionError, HTTPError, JSONDecodeError}}
            \cup {IF data.object
                  THEN Outcome("adapter", a, "return", None, None,
                           Some(Response("dict", TRUE,
                               <<Choice(TRUE, TRUE,
                                     Some(DictGet(data.fields, "content", JStr(<<>>))),
                                     None)>>)),
                           0, 1, FALSE, None, Some(payload), None, None)
                  ELSE raised(AttributeError, None) : data \in ServerBodies}

\* LlamaServerModel.completion: every way one call can end
completion(a) ==
    LET payload == Payload(completion_prompt(a.messages), a.stream, a.temperature)
    IN  IF functions_given(a.functions)
        THEN {Outcome("adapter", a, "raise", Some(ValueError), None, None, 0, 0, FALSE,
                      None, None, None, None)}
        ELSE IF a.stream
        THEN {Outcome("adapter", a, "return", None, None, Some(R_generator), 0, 0, FALSE,
                      None, Some(payload), None, None)}
        ELSE blocking_completion(a, payload)

-----------------------------------------------------------------------------
(* SpecLlama: one local-server completion and the consumption of its stream *)

MaxLines == 3

InitLlama ==
    /\ CACHE = None
    /\ requests \in BOOLEAN
    /\ model_name = LLAMA_PREFIX \o <<"m">>
    /\ temperature = Some(0)
    /\ functions = None
    /\ extra_params = None
    /\ messages = <<>>
    /\ call = None
    /\ prevCall = None
    /\ nCalls = 0
    /\ IdleRetry /\ IdleStream /\ IdlePrompt

\* the caller is handed a generator: the server's body and the point where
\* the transport breaks are fixed from here on
Handed(r, owner, connects) ==
    IF r.outcome = "return" /\ r.res = Some(R_generator)
    THEN \E w \in SeqsUpTo(Lines, MaxLines), b \in 0..(MaxLines + 1), c \in connects :
            /\ b <= Len(w) + 1
            /\ c # None => (w = <<>> /\ b = 0)
            /\ wire' = w
            /\ breakAt' = b
            /\ gen' = Some(Generator(owner, FALSE, c, 0, "suspended", None))
    ELSE UNCHANGED <<wire, breakAt, gen>>

\* send_completion("llama-cpp/m", messages, None, stream, 0)
FacadeCall ==
    /\ call = None
    /\ \E msgs \in Conversations, stream \in BOOLEAN :
         \E r \in send_completion(CACHE, requests,
                     Args(model_name, msgs, functions, stream, temperature, None)) :
            /\ call' = Some(r)
            /\ messages' = msgs
            /\ result' = IF r.outcome = "raise" THEN Some(Raised(Val(r.exc))) ELSE None
            /\ Handed(r, "facade", {None})
    /\ nCalls' = nCalls + 1
    /\ UNCHANGED <<CACHE, requests, sessionVars, prevCall, pc, retry_delay, attempts,
                   sleeps, yielded, promptVars>>

\* LlamaServerModel.completion(messages, stream, temperature, functions)
AdapterCall ==
    /\ call = None
    /\ \E msgs \in Conversations, fns \in FunctionsArgs, stream \in BOOLEAN :
         \E r \in completion(Args(model_name, msgs, fns, stream, temperature, None)) :
            /\ call' = Some(r)
            /\ messages' = msgs
            /\ result' = IF r.outcome = "raise" THEN Some(Raised(Val(r.exc))) ELSE None
            /\ Handed(r, "adapter", {None, Some(ConnectionError), Some(HTTPError)})
    /\ UNCHANGED <<CACHE, requests, sessionVars, prevCall, nCalls, pc, retry_delay,
                   attempts, sleeps, yielded, promptVars>>

\* the consumer asks the generator for its next chunk
GenNext ==
    /\ gen # None
    /\ Val(gen).status = "suspended"
    /\ LET g == Val(gen)
           step == IF g.owner = "facade"
                   THEN generate_next(g, wire, breakAt)
                   ELSE stream_completion_next(g, wire, breakAt)
       IN  /\ gen' = Some(Generator(g.owner, TRUE, g.connect, step.pos,
                          CASE step.kind = "yield" -> "suspended"
                            [] step.kind = "stop" -> "exhausted"
                            [] OTHER -> "raised",
                          step.fault))
           /\ yielded' = IF step.kind = "yield" THEN Append(yielded, step.chunk) ELSE yielded
           /\ result' = IF step.kind = "raise" THEN Some(Raised(Val(step.exc))) ELSE result
    /\ UNCHANGED <<CACHE, requests, sessionVars, messages, call, prevCall, nCalls, pc,
                   retry_delay, attempts, sleeps, wire, breakAt, promptVars>>

NextLlama == FacadeCall \/ AdapterCall \/ GenNext

SpecLlama == InitLlama /\ [][NextLlama]_vars

-----------------------------------------------------------------------------
(* Claims about the local-server paths, checked under SpecLlama *)

\* C6: LlamaServerModel.completion with a non-empty functions list raises
\* its ValueError with no request posted and no generator handed out that
\* could post one later, for every message list and either stream flag;
\* with functions None or empty it never raises that error.
C6_FunctionsRejected ==
    (call # None /\ Val(call).who = "adapter") =>
        LET c == Val(call)
            nonEmpty == c.args.functions # None /\ Len(Val(c.args.functions)) > 0
        IN  /\ nonEmpty =>
                 /\ c.outcome = "raise"
                 /\ c.exc = Some(ValueError)
                 /\ c.http = 0
                 /\ c.payload = None
                 /\ gen = None
            /\ ~nonEmpty => c.exc # Some(ValueError)

\* a streaming completion with two function specs was refused
C6_Witness ==
    /\ call # None
    /\ Val(call).who = "adapter"
    /\ Val(call).args.functions = Some(<<F_foo, F_bar>>)
    /\ Val(call).args.stream
    /\ Val(call).exc = Some(ValueError)

\* C7 as stated: every transport failure of a local-server completion, at the
\* request or while the stream is consumed, blocking or streaming, through
\* the adapter class or through send_completion, reaches the caller as the
\* RuntimeError that carries the original message.
C7_AsStated ==
    /\ (call # None /\ Val(call).fault # None) =>
           result = Some(Raised(RuntimeErrorOf(Val(Val(call).fault))))
    /\ (gen # None /\ Val(gen).fault # None) =>
           result = Some(Raised(RuntimeErrorOf(Val(Val(gen).fault))))

\* what the code does keep of C7: a failure met before the call returns is
\* wrapped; one met by a generator reaches the consumer as it was raised
C7_WrappedBeforeReturn ==
    /\ (call # None /\ Val(call).fault # None) =>
           /\ Val(call).exc = Some(RuntimeErrorOf(Val(Val(call).fault)))
           /\ result = Some(Raised(RuntimeErrorOf(Val(Val(call).fault))))
    /\ (gen # None /\ Val(gen).fault # None) =>
           result = Some(Raised(Val(Val(gen).fault)))

\* the line starts with "data: " and the rest of it is one JSON object
IsDataObjectLine(line) ==
    /\ Len(line) = 7
    /\ \A i \in 1..6 : line[i] = DATA_PREFIX[i]
    /\ line[7].doc # None
    /\ Val(line[7].doc).object

\* the chunk the claim names for such a line
ClaimedChunk(line) ==
    LET fields == Val(line[7].doc).fields
    IN  [content |-> IF "content" \in DOMAIN fields THEN fields.content ELSE JStr(<<>>),
         finish_reason |->
             IF "stop" \in DOMAIN fields /\ Truthy(fields.stop) THEN Some("stop") ELSE None,
         stop |-> None]

ClaimedChunks(lines) ==
    LET good == SelectSeq(lines, IsDataObjectLine)
    IN  [i \in 1..Len(good) |-> ClaimedChunk(good[i])]

\* C9: the stream send_completion returns yields, in arrival order, exactly
\* one chunk per line read that starts with "data: " and whose rest parses
\* as a JSON object, with the line's content (or "") and finish_reason
\* "stop" exactly when its stop field is true (tested as a Python truth
\* value: for a boolean stop that is stop = true); every other line yields
\* nothing and never ends the stream, which only ends at the end of the body
\* or when the transport breaks.
C9_StreamChunks ==
    (gen # None /\ Val(gen).owner = "facade") =>
        LET g == Val(gen)
        IN  /\ yielded = ClaimedChunks(SubSeq(wire, 1, g.pos))
            /\ g.status = "raised" => g.fault # None
            /\ (g.status = "exhausted") => (g.pos = Len(wire) /\ yielded = ClaimedChunks(wire))
            /\ \A i \in 1..Len(yielded) :
                  LET line == SelectSeq(SubSeq(wire, 1, g.pos), IsDataObjectLine)[i]
                      stop == Val(line[7].doc).fields
                  IN  ("stop" \in DOMAIN stop /\ stop["stop"].t = "bool") =>
                          (yielded[i].finish_reason = Some("stop") <=> stop["stop"].b)

\* a body read to its end: a malformed line, then a line that yields
C9_Witness ==
    /\ gen # None
    /\ Val(gen).owner = "facade"
    /\ Val(gen).status = "exhausted"
    /\ Len(wire) = 3
    /\ wire[2] = DATA_PREFIX \o <<Ch("{"), Ch("o")>>
    /\ wire[3] = DATA_PREFIX \o <<JsonText(D_stop)>>
    /\ Len(yielded) = 2
    /\ yielded[2].finish_reason = Some("stop")

-----------------------------------------------------------------------------
(* SpecPrompt: both renderers applied to one message list *)

MaxMsgs == 3

InitPrompt ==
    /\ messages \in SeqsUpTo(Message, MaxMsgs)
    /\ CACHE = None
    /\ requests = TRUE
    /\ model_name = LLAMA_PREFIX \o <<"m">>
    /\ functions = None
    /\ temperature = Some(0)
    /\ extra_params = None
    /\ call = None
    /\ prevCall = None
    /\ nCalls = 0
    /\ IdleRetry /\ IdleStream /\ IdlePrompt

\* LlamaServerModel.completion builds payload["prompt"]
AdapterRender ==
    /\ promptA = None
    /\ promptA' = Some(completion_prompt(messages))
    /\ UNCHANGED <<CACHE, requests, sessionVars, messages, call, prevCall, nCalls,
                   retryVars, streamVars, promptF>>

\* send_completion builds payload["prompt"] on the local-server path
FacadeRender ==
    /\ promptF = None
    /\ promptF' = Some(send_completion_prompt(messages))
    /\ UNCHANGED <<CACHE, requests, sessionVars, messages, call, prevCall, nCalls,
                   retryVars, streamVars, promptA>>

NextPrompt == AdapterRender \/ FacadeRender

SpecPrompt == InitPrompt /\ [][NextPrompt]_vars

\* what the claim names: one line per message, in message order
RECURSIVE ConcatLines(_)
ConcatLines(msgs) ==
    IF msgs = <<>> THEN <<>>
    ELSE Upper(Head(msgs).role) \o <<":", " ">> \o Head(msgs).content \o <<"\n">>
             \o ConcatLines(Tail(msgs))

\* C8: every rendered prompt is, message by message and in order, the role
\* upper-cased, ": ", the content and a newline, followed by "ASSISTANT: ";
\* the adapter's and the facade's prompt for the same message list are the
\* same string, and for the empty list it is the cue alone.
C8_PromptRendering ==
    /\ promptA # None => Val(promptA) = ConcatLines(messages) \o ASSISTANT_CUE
    /\ promptF # None => Val(promptF) = ConcatLines(messages) \o ASSISTANT_CUE
    /\ (promptA # None /\ promptF # None) => promptA = promptF
    /\ (messages = <<>> /\ promptA # None) => Val(promptA) = ASSISTANT_CUE
    /\ (messages = <<>> /\ promptF # None) => Val(promptF) = ASSISTANT_CUE

\* both renderers ran on several messages with different roles, one of them
\* with a lower-case content
C8_Witness ==
    /\ promptA # None /\ promptF # None
    /\ Len(messages) >= 2
    /\ messages[1].role # messages[2].role
    /\ \E i \in 1..Len(messages) : messages[i].content = <<"h", "i">>

====
